---- MODULE Spec2Model ----
(***************************************************************************)
(* Model of project_creator_core: ProjectCreator.create() (the project     *)
(* creation orchestrator), the interactive wizard that builds its          *)
(* ProjectParams, and the pure helpers they use.                           *)
(*                                                                         *)
(* Strings the code inspects character by character (project names, path   *)
(* components, owners) are sequences of one-character strings.  URLs are   *)
(* opaque strings.  An optional value is a sequence of length 0 (None) or  *)
(* 1.  A path is the sequence of its components; it is absolute when its   *)
(* first component is Root.                                                *)
(***************************************************************************)
EXTENDS Integers, Sequences, FiniteSets, TLC

VARIABLES
    params,        \* ProjectParams held by the ProjectCreator
    template_url,  \* argument of create()
    pc,            \* position inside create()
    target,        \* local `target` of create()
    dest,          \* what clone_repo returned: None before the call, then
                   \* <<d>> with d the destination, <<>> when it is falsy
    dest_path,     \* local `dest_path` of create()
    calls,         \* side-effecting operations invoked so far, in order
    fs_dirs,       \* directories that exist
    cloned_git,    \* whether the clone arrived with a .git directory
    fs_files,      \* files that exist: set of [path, content]
    remote,        \* remote hosting state: [create_asked, push_asked, repos, pushed]
    result,        \* value returned by create(): <<>> or <<path>>
    error,         \* exception that left create(): "" or its type
    cwd,           \* process working directory
    cwd0,          \* working directory when create() was called
    name_with_owner, \* local of _maybe_create_remote_repo
    nm_in,         \* argument of _to_snake_case
    nm_out,        \* its results: <<>> before the call, then <<r>>, then <<r, r2>>
    wpc,           \* position inside run_project_creation_wizard
    cfg,           \* what the configuration files hold
    w,             \* locals of the wizard and of _prompt_repo_creation
    prompts,       \* prompts shown so far, in order
    logs,          \* logger calls so far: <<level, message>>
    wexc,          \* exception that left the wizard: "" or its type
    rd_doc,        \* the document handed to a catalog reader
    rd_out         \* what the reader made of it: <<>> before the call, then
                   \* <<None>> for a ValueError or <<Some(result)>>

vars == <<params, template_url, pc, target, dest, dest_path, calls,
          fs_dirs, cloned_git,
          fs_files, remote, result, error, cwd, cwd0, name_with_owner,
          nm_in, nm_out, wpc, cfg, w, prompts, logs, wexc, rd_doc, rd_out>>

createVars == <<params, template_url, pc, target, dest, dest_path, calls,
          fs_dirs, cloned_git,
                fs_files, remote, result, error, cwd, cwd0, name_with_owner>>

nmVars == <<nm_in, nm_out, rd_doc, rd_out>>

wizVars == <<wpc, cfg, w, prompts, logs, wexc>>

----------------------------------------------------------------------------
(* Bounds *)

MaxUrls == 2
MaxNameLen == 3
MaxOrgs == 2
MaxTemplates == 2

----------------------------------------------------------------------------
(* Generic helpers *)

None == <<>>

Some(x) == <<x>>

SeqsUpTo(S, n) == UNION {[1..k -> S] : k \in 0..n}

Range(s) == {s[i] : i \in 1..Len(s)}

IsPrefix(s, t) == Len(s) <= Len(t) /\ \A i \in 1..Len(s) : s[i] = t[i]

----------------------------------------------------------------------------
(* Characters and strings *)

UpperCase == {"A", "B"}

LowerCase == {"a", "b", "p", "r", "o", "j", "e", "c", "t", "w", "h", "n", "g", "i"}

Digits == {"1"}

Whitespace == {" "}

IsAlnum(c) == c \in UpperCase \cup LowerCase \cup Digits

\* str.lower() on one character
ToLower(c) == CASE c = "A" -> "a" [] c = "B" -> "b" [] OTHER -> c

\* str.strip(chars): drop leading and trailing characters of the set
RECURSIVE LStrip(_, _)
LStrip(s, cs) == IF s # <<>> /\ Head(s) \in cs THEN LStrip(Tail(s), cs) ELSE s

RECURSIVE RStrip(_, _)
RStrip(s, cs) ==
    IF s # <<>> /\ s[Len(s)] \in cs THEN RStrip(SubSeq(s, 1, Len(s) - 1), cs) ELSE s

Strip(s, cs) == RStrip(LStrip(s, cs), cs)

----------------------------------------------------------------------------
(* _to_snake_case (project_creation_wizard.py) *)

\* re.sub(r"[M]+", "_", s): every maximal run of characters of M becomes "_"
RECURSIVE SubRuns(_, _)
SubRuns(s, M) ==
    IF s = <<>> THEN <<>>
    ELSE IF Head(s) \in M THEN <<"_">> \o SubRuns(LStrip(s, M), M)
    ELSE <<Head(s)>> \o SubRuns(Tail(s), M)

\* the characters a name can hold in this model
NameChars == {"a", "B", "1", "_", " ", "!"}

AllChars == UpperCase \cup LowerCase \cup Digits \cup Whitespace \cup {"_", "!", "-", "/", ".", "~"}

NonAlnum == {c \in AllChars : ~IsAlnum(c)}

Lowered(s) == [i \in 1..Len(s) |-> ToLower(s[i])]

ProjectLiteral == <<"p", "r", "o", "j", "e", "c", "t">>

\* a plausible slip: the underscores at the ends are not stripped
ToSnakeCaseNoStrip(value) ==
    LET cleaned == SubRuns(SubRuns(Strip(value, Whitespace), NonAlnum), {"_"})
        res == Lowered(cleaned)
    IN IF res = <<>> THEN ProjectLiteral ELSE res

ToSnakeCase(value) ==
    LET cleaned1 == SubRuns(Strip(value, Whitespace), NonAlnum)
        cleaned == Strip(SubRuns(cleaned1, {"_"}), {"_"})
        res == Lowered(cleaned)
    IN IF res = <<>> THEN ProjectLiteral ELSE res

----------------------------------------------------------------------------
(* Paths (pathlib.Path as used by project_creator.py) *)

Root == <<"/">>

DotDot == <<".", ".">>

Tilde == <<"~">>

Home == <<Root, <<"h">>>>

GitName == <<".", "g", "i", "t">>

InitYamlName == <<"i", "n", "i", "t">>

\* Path.expanduser()
ExpandUser(p) == IF p # <<>> /\ p[1] = Tilde THEN Home \o Tail(p) ELSE p

RECURSIVE CollapseDots(_, _)
CollapseDots(p, acc) ==
    IF p = <<>> THEN acc
    ELSE IF Head(p) = DotDot
         THEN CollapseDots(Tail(p), IF Len(acc) > 1 THEN SubSeq(acc, 1, Len(acc) - 1) ELSE acc)
         ELSE CollapseDots(Tail(p), Append(acc, Head(p)))

\* Path.resolve(): absolute against the working directory c, ".." removed
Resolve(p, c) ==
    LET abs == IF p # <<>> /\ p[1] = Root THEN p ELSE c \o p
    IN CollapseDots(Tail(abs), <<Root>>)

\* Path.parent
Parent(p) == IF Len(p) > 1 THEN SubSeq(p, 1, Len(p) - 1) ELSE p

\* Path.name
Name(p) == IF Len(p) > 1 THEN p[Len(p)] ELSE <<>>

\* p and every ancestor of p
Ancestors(p) == {SubSeq(p, 1, k) : k \in 1..Len(p)}

----------------------------------------------------------------------------
(* ProjectCreator (project_creator.py) *)

Urls == {"u1", "u2"}

Owners == {<<"o">>, <<"g">>}

Visibilities == {"public", "private", "Private"}

\* str.lower() on a visibility
LowerVisibility(v) == IF v = "Private" THEN "private" ELSE v

RepoPaths ==
    { <<Root, <<"w">>, <<"a", "p">>>>,       \* /w/ap
      <<Root, <<"n">>, <<"a", " ", "p">>>>,  \* "/n/a p", parent missing
      <<DotDot, <<" ">>>>,                   \* "../ ", blank folder name
      <<Tilde, <<"a">>>> }                   \* ~/a

ProjectNames == {<<"a", "p">>, ProjectLiteral}

TemplateUrls == {"t1"}

Cwds == {<<Root, <<"w">>>>, <<Root, <<"w">>, <<"b">>>>}

InitDirs == UNION {Ancestors(c) : c \in Cwds} \cup Ancestors(Home)

RepoOptionsSet == {None} \cup {Some([owner |-> o, visibility |-> v]) : o \in Owners, v \in Visibilities}

ParamsSet ==
    [repo_path : RepoPaths, module_urls : SeqsUpTo(Urls, MaxUrls),
     project_name : ProjectNames, repo_options : RepoOptionsSet]

\* the side-effecting steps of create(), in the order the code names them
SideEffects(p) ==
    <<"mkdir_parent", "clone_repo", "remove_git_dir", "write_init_yaml">>
    \o (IF p.repo_options = None THEN <<>> ELSE <<"create_repo", "push_initial_commit">>)

\* a plausible slip: the manifest is written before the clone
StepAfterWriteFirst(step) ==
    CASE step = "prepare" -> "api"
      [] step = "api" -> "write"
      [] step = "write" -> "clone"
      [] step = "clone" -> "strip"
      [] step = "strip" -> "remote"

\* statement order of create() and _clone_template()
StepAfter(step) ==
    CASE step = "prepare" -> "api"
      [] step = "api" -> "clone"
      [] step = "clone" -> "strip"
      [] step = "strip" -> "write"
      [] step = "write" -> "remote"

\* an exception leaves create()
Raise(e) == pc' = "failed" /\ error' = e

\* _prepare_target_path
PrepareTargetPath ==
    /\ pc = "prepare"
    /\ LET t == Resolve(ExpandUser(params.repo_path), cwd) IN
        /\ target' = t
        /\ calls' = Append(calls, "mkdir_parent")
        /\ \E ok \in BOOLEAN :
             IF ok
             THEN /\ fs_dirs' = fs_dirs \cup Ancestors(Parent(t))
                  /\ pc' = StepAfter("prepare")
                  /\ error' = error
             ELSE /\ fs_dirs' = fs_dirs
                  /\ Raise("OSError")
    /\ UNCHANGED <<cloned_git, params, template_url, dest, dest_path, fs_files, remote, result,
                   cwd, cwd0, name_with_owner, nmVars, wizVars>>

\* api = GithubApi()
NewGithubApi ==
    /\ pc = "api"
    /\ \E ok \in BOOLEAN :
         IF ok THEN pc' = StepAfter("api") /\ error' = error
         ELSE Raise("ADHDError")
    /\ UNCHANGED <<cloned_git, params, template_url, target, dest, dest_path, calls, fs_dirs,
                   fs_files, remote, result, cwd, cwd0, name_with_owner, nmVars, wizVars>>

\* a plausible slip: the falsy destination is not checked
CloneCheckMissing(d) == ""

\* if not dest: raise RuntimeError
CloneCheck(d) == IF d = <<>> THEN "RuntimeError" ELSE ""

\* _clone_template up to the call of _remove_git_dir; the gateway returns
\* the destination (with or without a .git directory), a falsy value
\* (the empty path), or raises
CloneTemplate ==
    /\ pc = "clone"
    /\ calls' = Append(calls, "clone_repo")
    /\ \E outcome \in {"dest", "falsy", "raise"}, git \in BOOLEAN :
         LET d == IF outcome = "dest" THEN target ELSE <<>> IN
         IF outcome = "raise"
         THEN /\ Raise("ADHDError")
              /\ UNCHANGED <<dest, dest_path, fs_dirs, cloned_git>>
         ELSE /\ dest' = Some(d)
              /\ cloned_git' = (outcome = "dest" /\ git)
              /\ fs_dirs' = IF outcome = "dest"
                            THEN fs_dirs \cup {target}
                                 \cup (IF git THEN {Append(target, GitName)} ELSE {})
                            ELSE fs_dirs
              /\ IF CloneCheck(d) # ""
                 THEN Raise(CloneCheck(d)) /\ UNCHANGED dest_path
                 ELSE /\ dest_path' = Resolve(d, cwd)
                      /\ pc' = StepAfter("clone")
                      /\ error' = error
    /\ UNCHANGED <<params, template_url, target, fs_files, remote, result,
                   cwd, cwd0, name_with_owner, nmVars, wizVars>>

\* a plausible slip: the directory is looked for and left where it is
RmtreeKeep(dirs, p) == dirs

\* shutil.rmtree(p): p and everything below it
Rmtree(dirs, p) == {x \in dirs : ~IsPrefix(p, x)}

\* _remove_git_dir
RemoveGitDir ==
    /\ pc = "strip"
    /\ calls' = Append(calls, "remove_git_dir")
    /\ LET git_dir == Append(dest_path, GitName) IN
         IF git_dir \in fs_dirs
         THEN \E ok \in BOOLEAN :
                IF ok
                THEN /\ fs_dirs' = Rmtree(fs_dirs, git_dir)
                     /\ pc' = StepAfter("strip")
                     /\ error' = error
                ELSE /\ fs_dirs' = fs_dirs
                     /\ Raise("OSError")
         ELSE /\ fs_dirs' = fs_dirs
              /\ pc' = StepAfter("strip")
              /\ error' = error
    /\ UNCHANGED <<cloned_git, params, template_url, target, dest, dest_path, fs_files, remote,
                   result, cwd, cwd0, name_with_owner, nmVars, wizVars>>

\* list(dict.fromkeys(xs)): the first occurrence of every element, in order
RECURSIVE DictFromKeys(_)
DictFromKeys(xs) ==
    IF xs = <<>> THEN <<>>
    ELSE LET init == DictFromKeys(SubSeq(xs, 1, Len(xs) - 1))
             last == xs[Len(xs)]
         IN IF last \in Range(init) THEN init ELSE Append(init, last)

\* a plausible slip: the module list is deduplicated on the way to the file
InitDataDeduped(p) ==
    << <<"name", p.project_name>>, <<"description", <<>>>>,
       <<"modules", DictFromKeys(p.module_urls)>> >>

\* init_data of _write_init_yaml, keys in the order they are dumped
InitData(p) ==
    << <<"name", p.project_name>>, <<"description", <<>>>>,
       <<"modules", p.module_urls>> >>

\* the file is opened for writing and the document dumped into it;
\* the working directory afterwards is c
WriteInitYamlIn(c) ==
    /\ pc = "write"
    /\ calls' = Append(calls, "write_init_yaml")
    /\ LET init_path == Append(dest_path, InitYamlName) IN
         \E ok \in BOOLEAN :
           IF ok
           THEN /\ fs_files' = {f \in fs_files : f.path # init_path}
                                \cup {[path |-> init_path, content |-> InitData(params)]}
                /\ pc' = StepAfter("write")
                /\ error' = error
           ELSE /\ fs_files' = fs_files
                /\ Raise("OSError")
    /\ cwd' = c
    /\ UNCHANGED <<cloned_git, params, template_url, target, dest, dest_path, fs_dirs, remote,
                   result, cwd0, name_with_owner, nmVars, wizVars>>

\* a plausible slip: the step enters the project root and never leaves it
WriteInitYamlChdir == WriteInitYamlIn(dest_path)

\* _write_init_yaml
WriteInitYaml == WriteInitYamlIn(cwd)

\* a plausible slip: the separator of the project name is used
SpacesToUnderscores(s) == [i \in 1..Len(s) |-> IF s[i] = " " THEN "_" ELSE s[i]]

\* str.replace(" ", "-")
SpacesToHyphens(s) == [i \in 1..Len(s) |-> IF s[i] = " " THEN "-" ELSE s[i]]

\* _determine_repo_name: <<>> stands for the ValueError
DetermineRepoName(d) ==
    LET name == Strip(Name(d), Whitespace)
    IN IF name = <<>> THEN None ELSE Some(SpacesToHyphens(name))

\* a plausible slip: the answer of create_repo is ignored
CreateRepoCheckMissing(created) == ""

\* if not api.create_repo(...): raise RuntimeError
CreateRepoCheck(created) == IF ~created THEN "RuntimeError" ELSE ""

\* return str(dest_path)
Return ==
    /\ pc' = "done"
    /\ result' = Some(dest_path)
    /\ error' = error

\* _maybe_create_remote_repo with options present, up to the answer of
\* create_repo
CreateRemoteRepo(options) ==
    LET repo_name == DetermineRepoName(dest_path) IN
    IF repo_name = None
    THEN /\ Raise("ValueError")
         /\ UNCHANGED <<calls, remote, result, name_with_owner>>
    ELSE LET nwo == options.owner \o <<"/">> \o repo_name[1]
             is_private == LowerVisibility(options.visibility) = "private"
         IN /\ name_with_owner' = nwo
            /\ calls' = Append(calls, "create_repo")
            /\ result' = result
            /\ \E outcome \in {"true", "false", "raise"} :
                 LET asked == [remote EXCEPT !.create_asked =
                                 Append(@, [name |-> nwo, private |-> is_private])]
                 IN
                 IF outcome = "raise"
                 THEN Raise("ADHDError") /\ remote' = asked
                 ELSE /\ remote' = IF outcome = "true"
                                   THEN [asked EXCEPT !.repos = @ \cup
                                           {[name |-> nwo, private |-> is_private]}]
                                   ELSE asked
                      /\ IF CreateRepoCheck(outcome = "true") # ""
                         THEN Raise(CreateRepoCheck(outcome = "true"))
                         ELSE pc' = "push" /\ error' = error

DefaultOptions == [owner |-> <<"o">>, visibility |-> "private"]

\* a plausible slip: absent options fall back to a default instead of
\* skipping the remote steps
MaybeCreateRemoteRepoDefault ==
    /\ pc = "remote"
    /\ CreateRemoteRepo(IF params.repo_options = None THEN DefaultOptions
                        ELSE params.repo_options[1])
    /\ UNCHANGED <<cloned_git, params, template_url, target, dest, dest_path, fs_dirs, fs_files,
                   cwd, cwd0, nmVars, wizVars>>

\* _maybe_create_remote_repo up to the answer of create_repo, and the
\* return of create() when there is nothing to provision
MaybeCreateRemoteRepo ==
    /\ pc = "remote"
    /\ IF params.repo_options = None
       THEN Return /\ UNCHANGED <<calls, remote, name_with_owner>>
       ELSE CreateRemoteRepo(params.repo_options[1])
    /\ UNCHANGED <<cloned_git, params, template_url, target, dest, dest_path, fs_dirs, fs_files,
                   cwd, cwd0, nmVars, wizVars>>

\* api.push_initial_commit(...) and the return of create(); to push the
\* tree the gateway may set up a repository of its own in dest
PushInitialCommit ==
    /\ pc = "push"
    /\ calls' = Append(calls, "push_initial_commit")
    /\ \E ok \in BOOLEAN :
         LET asked == [remote EXCEPT !.push_asked =
                         Append(@, [repo |-> name_with_owner, branch |-> "main",
                                    message |-> "init commit"])]
         IN
         IF ok
         THEN /\ remote' = [asked EXCEPT !.pushed = @ \cup
                              {[repo |-> name_with_owner, branch |-> "main",
                                message |-> "init commit", tree |-> dest_path]}]
              /\ Return
         ELSE /\ remote' = asked
              /\ Raise("ADHDError")
              /\ result' = result
    /\ \E git_init \in BOOLEAN :
         fs_dirs' = IF git_init THEN fs_dirs \cup {Append(dest_path, GitName)} ELSE fs_dirs
    /\ UNCHANGED <<cloned_git, params, template_url, target, dest, dest_path, fs_files,
                   cwd, cwd0, name_with_owner, nmVars, wizVars>>

----------------------------------------------------------------------------
(* YAML values and parse_preload_sets (preload_sets.py) *)

\* a YAML value carries its Python type; a mapping is the sequence of its
\* <<key, value>> pairs in document order
YStr(x) == [kind |-> "str", val |-> x]

YInt(n) == [kind |-> "int", val |-> n]

YList(xs) == [kind |-> "list", val |-> xs]

YMap(es) == [kind |-> "map", val |-> es]

NoneVal == [kind |-> "none", val |-> <<>>]

\* str(u) for a scalar
StrOf(x) ==
    CASE x.kind = "str" -> x.val
      [] x.kind = "int" -> (CASE x.val = 1 -> "1" [] x.val = 2 -> "2" [] OTHER -> "0")
      [] x.kind = "list" -> "[..]"
      [] x.kind = "map" -> "{..}"
      [] OTHER -> "None"

\* dict.get(key, default) on a sequence of pairs
DictGet(es, key, default) ==
    IF \E i \in 1..Len(es) : es[i][1] = key
    THEN es[CHOOSE i \in 1..Len(es) : es[i][1] = key][2]
    ELSE default

\* [str(u) for u in xs]
StrEach(xs) == [i \in 1..Len(xs) |-> StrOf(xs[i])]

\* a plausible slip: a urls value that is no list is taken as one URL
PreloadSetOfScalarUrls(name, value) ==
    [name |-> name,
     description |-> IF value.kind = "map"
                     THEN StrOf(DictGet(value.val, "description", YStr("")))
                     ELSE "",
     urls |-> IF value.kind # "map" THEN <<>>
              ELSE IF DictGet(value.val, "urls", NoneVal).kind = "list"
              THEN StrEach(DictGet(value.val, "urls", YList(<<>>)).val)
              ELSE IF DictGet(value.val, "urls", NoneVal).kind = "str"
              THEN <<DictGet(value.val, "urls", NoneVal).val>>
              ELSE <<>>]

\* one PreloadSet per entry of `options`
PreloadSetOf(name, value) ==
    [name |-> name,
     description |-> IF value.kind = "map"
                     THEN StrOf(DictGet(value.val, "description", YStr("")))
                     ELSE "",
     urls |-> IF value.kind = "map" /\ DictGet(value.val, "urls", NoneVal).kind = "list"
              THEN StrEach(DictGet(value.val, "urls", YList(<<>>)).val)
              ELSE <<>>]

\* parse_preload_sets: None stands for the ValueError
ParsePreloadSets(yf) ==
    LET always_raw == DictGet(yf, "always", YList(<<>>))
        options == DictGet(yf, "options", YMap(<<>>))
        always == IF always_raw.kind = "list" THEN StrEach(always_raw.val) ELSE <<>>
    IN IF options.kind # "map" THEN None
       ELSE Some([always |-> always,
                  sets |-> [i \in 1..Len(options.val) |->
                              PreloadSetOf(options.val[i][1], options.val[i][2])]])

----------------------------------------------------------------------------
(* run_project_creation_wizard (project_creation_wizard.py) *)

\* a plausible slip: a repeated label is not refused
ChoicesMapNoCheck(labelled) == Some(labelled)

\* _choices_map on <<label, item>> pairs: None stands for the ValueError
ChoicesMap(labelled) ==
    IF \E i, j \in 1..Len(labelled) : i < j /\ labelled[i][1] = labelled[j][1]
    THEN None
    ELSE Some(labelled)

\* lookup[label]
Lookup(lookup, label) ==
    lookup[CHOOSE i \in 1..Len(lookup) : lookup[i][1] = label][2]

Labels(lookup) == {lookup[i][1] : i \in 1..Len(lookup)}

\* f"{tmpl.name} — {tmpl.description or tmpl.url}"
TemplateLabel(tmpl) ==
    <<tmpl.name, IF tmpl.description # "" THEN tmpl.description ELSE tmpl.url>>

\* "None" if isinstance(item, str) else f"{item.name} — {item.description}"
PreloadLabel(item) ==
    IF item.kind = "str" THEN <<"None">>
    ELSE <<StrOf(item.val.name), item.val.description>>

\* a plausible slip: the lists are concatenated and not deduplicated
MergeUrlsNoDedup(always_urls, selected_urls) == always_urls \o selected_urls

\* list(dict.fromkeys(always_urls + selected_urls))
MergeUrls(always_urls, selected_urls) == DictFromKeys(always_urls \o selected_urls)

\* a plausible slip: an interrupted visibility prompt keeps the default
\* and the flow goes on
AfterInterruptKeepDefault(prompt) ==
    IF prompt = "visibility" THEN "construct" ELSE "returned"

\* every except KeyboardInterrupt clause ends the wizard
AfterInterrupt(prompt) == "returned"

Log(level, msg) == logs' = Append(logs, <<level, msg>>)

Log2(level, msg, level2, msg2) == logs' = logs \o << <<level, msg>>, <<level2, msg2>> >>

Shown(prompt, outcome) == prompts' = Append(prompts, <<prompt, outcome>>)

\* answers, gateway replies and configuration documents of the wizard
RawNames == {<<"a", "p">>, <<"A", " ", "p">>, <<" ">>}

ParentDirs == {<<>>, <<Root, <<"n">>>>}

UserLogins == {<<"o">>, <<>>}

OrgLogins == {<<"g">>, <<"o">>, <<>>}

OrgLists == SeqsUpTo(OrgLogins, MaxOrgs)

TemplateBasic == [name |-> "basic", description |-> "", url |-> "t1"]

TemplateWeb == [name |-> "web", description |-> "d", url |-> "t2"]

\* the entries of the keys 1 and "1" of one catalog: f"{tmpl.name}" renders
\* both names as 1
TemplateOne == [name |-> "1", description |-> "d", url |-> "t1"]

TemplateOneStr == [name |-> "1", description |-> "d", url |-> "t2"]

\* None: the templates file is missing; otherwise what list_templates
\* makes of it
TemplateCatalogs ==
    {None, Some(<<>>), Some(<<TemplateBasic>>), Some(<<TemplateBasic, TemplateWeb>>),
     Some(<<TemplateOne, TemplateOneStr>>)}

UrlLists == {[i \in 1..Len(xs) |-> YStr(xs[i])] : xs \in SeqsUpTo(Urls, MaxUrls)}

SetEntry(name, urls) ==
    <<name, YMap(<< <<"description", YStr("d")>>, <<"urls", urls>> >>)>>

AlwaysEntries(lists) ==
    {<<>>, << <<"always", YStr("u1")>> >>, << <<"always", YList(<<YInt(1), YStr("1")>>)>> >>}
    \cup {<< <<"always", YList(xs)>> >> : xs \in lists}

OptionsEntries(lists) ==
    {<<>>,
     << <<"options", YStr("u1")>> >>,
     << <<"options", YMap(<< <<YStr("a"), YStr("u1")>>,
                            <<YStr("b"), YMap(<< <<"urls", YStr("u1")>> >>)>> >>)>> >>,
     << <<"options", YMap(<< <<YInt(1), YMap(<< <<"urls", YList(<<YStr("u1")>>)>> >>)>>,
                            <<YStr("1"), YMap(<< <<"urls", YList(<<YStr("u2")>>)>> >>)>> >>)>> >>}
    \cup {<< <<"options", YMap(<<SetEntry(YStr("web"), YList(xs))>>)>> >> : xs \in lists}

\* None: the preload sets file is missing
PreloadDocs(lists) ==
    {None} \cup {Some(a \o o) : a \in AlwaysEntries(lists), o \in OptionsEntries(lists)}

FewUrlLists == {<<>>, <<YStr("u1")>>, <<YStr("u2")>>}

\* always: [u1] and options: {web: {description: d, urls: [u2]}}
ExamplePreloadDoc ==
    << <<"always", YList(<<YStr("u1")>>)>>,
       <<"options", YMap(<<SetEntry(YStr("web"), YList(<<YStr("u2")>>))>>)>> >>

\* the documents of the whole-run specification: a missing file, an empty
\* document, the example, options that is no mapping, and two option
\* keys (1 and "1") with the same label
WizardPreloadDocs ==
    {None, Some(<<>>), Some(ExamplePreloadDoc), Some(<< <<"options", YStr("u1")>> >>),
     Some(<< <<"options", YMap(<< <<YInt(1), YMap(<< <<"urls", YList(<<YStr("u1")>>)>> >>)>>,
                                  <<YStr("1"), YMap(<< <<"urls", YList(<<YStr("u2")>>)>> >>)>> >>)>> >>)}

W0 ==
    [raw_project_name |-> <<>>, project_name |-> <<>>, parent_dir |-> <<>>,
     dest_path |-> <<>>, templates |-> <<>>, template_lookup |-> <<>>,
     template_default |-> <<>>, selected_template_label |-> <<>>, template_url |-> "",
     always_urls |-> <<>>, sets |-> <<>>, preload_lookup |-> <<>>,
     selected_set_label |-> <<>>, selected_urls |-> <<>>, module_urls |-> <<>>, create_choice |-> "",
     user_login |-> <<>>, orgs |-> <<>>, owner_lookup |-> <<>>, owner |-> <<>>,
     repo_options |-> None]

\* the lines up to the first prompt: both configuration files are read
ReadConfig ==
    /\ wpc = "start"
    /\ IF cfg.templates = None
       THEN Log("error", "no templates configuration") /\ wpc' = "returned"
       ELSE IF cfg.preload = None
       THEN Log("error", "no preload sets configuration") /\ wpc' = "returned"
       ELSE logs' = logs /\ wpc' = "name"
    /\ UNCHANGED <<cfg, w, prompts, wexc, createVars, nmVars>>


\* the project name prompt and the normalisation of the answer
PromptProjectName ==
    /\ wpc = "name"
    /\ \/ /\ Shown("name", "interrupted")
          /\ Log("info", "Input cancelled")
          /\ wpc' = AfterInterrupt("name")
          /\ w' = w
       \/ \E raw_project_name \in RawNames :
            LET project_name == ToSnakeCase(raw_project_name) IN
            /\ Shown("name", "answered")
            /\ IF project_name # raw_project_name
               THEN Log("info", "Project name normalized")
               ELSE logs' = logs
            /\ w' = [w EXCEPT !.raw_project_name = raw_project_name,
                              !.project_name = project_name]
            /\ wpc' = "path"
    /\ UNCHANGED <<cfg, wexc, createVars, nmVars>>

\* the destination prompt; dest_path = str(Path(parent_dir) / project_name)
PromptParentDir ==
    /\ wpc = "path"
    /\ \/ /\ Shown("path", "interrupted")
          /\ Log("info", "Input cancelled")
          /\ wpc' = AfterInterrupt("path")
          /\ w' = w
       \/ \E parent_dir \in ParentDirs :
            /\ Shown("path", "answered")
            /\ logs' = logs
            /\ w' = [w EXCEPT !.parent_dir = parent_dir,
                              !.dest_path = Append(parent_dir, w.project_name)]
            /\ wpc' = "templates"
    /\ UNCHANGED <<cfg, wexc, createVars, nmVars>>

\* list_templates, the empty and the single-template case, and the
\* construction of the template menu
ListTemplates ==
    /\ wpc = "templates"
    /\ LET templates == cfg.templates[1]
           template_lookup ==
               ChoicesMap([i \in 1..Len(templates) |->
                             <<TemplateLabel(templates[i]), templates[i]>>])
       IN IF templates = <<>>
          THEN /\ Log("error", "No project templates found")
               /\ wpc' = "returned"
               /\ UNCHANGED <<w, wexc>>
          ELSE IF Len(templates) = 1
          THEN /\ Log("info", "Single project template detected")
               /\ w' = [w EXCEPT !.templates = templates,
                                 !.template_url = templates[1].url]
               /\ wpc' = "preload"
               /\ wexc' = wexc
          ELSE IF template_lookup = None
          THEN /\ wpc' = "raised"
               /\ wexc' = "ValueError"
               /\ UNCHANGED <<w, logs>>
          ELSE /\ w' = [w EXCEPT !.templates = templates,
                                 !.template_lookup = template_lookup[1]]
               /\ wpc' = "template_prompt"
               /\ UNCHANGED <<wexc, logs>>
    /\ UNCHANGED <<cfg, prompts, createVars, nmVars>>

\* a plausible slip: the first template is used whatever label is chosen
TemplateUrlOfFirst(template_lookup, selected_template_label) == template_lookup[1][2].url

\* template_lookup[selected_template_label].url
TemplateUrlOf(template_lookup, selected_template_label) ==
    Lookup(template_lookup, selected_template_label).url

\* the template menu, shown with default next(iter(template_lookup))
PromptTemplate ==
    /\ wpc = "template_prompt"
    /\ LET default == w.template_lookup[1][1] IN
       \/ /\ Shown("template", "interrupted")
          /\ Log("info", "Template selection cancelled")
          /\ wpc' = AfterInterrupt("template")
          /\ w' = [w EXCEPT !.template_default = default]
       \/ \E selected_template_label \in Labels(w.template_lookup) :
            /\ Shown("template", "answered")
            /\ logs' = logs
            /\ w' = [w EXCEPT !.template_default = default,
                              !.selected_template_label = selected_template_label,
                              !.template_url =
                                  TemplateUrlOf(w.template_lookup, selected_template_label)]
            /\ wpc' = "preload"
    /\ UNCHANGED <<cfg, wexc, createVars, nmVars>>

NoneItem == YStr("None")

SetItem(set) == [kind |-> "set", val |-> set]

\* parse_preload_sets and the construction of the preload menu
ParsePreload ==
    /\ wpc = "preload"
    /\ LET parsed == ParsePreloadSets(cfg.preload[1])
           sets == parsed[1].sets
           items == <<NoneItem>> \o [i \in 1..Len(sets) |-> SetItem(sets[i])]
           preload_lookup ==
               ChoicesMap([i \in 1..Len(items) |-> <<PreloadLabel(items[i]), items[i]>>])
       IN IF parsed = None \/ preload_lookup = None
          THEN /\ wpc' = "raised"
               /\ wexc' = "ValueError"
               /\ w' = w
          ELSE /\ w' = [w EXCEPT !.always_urls = parsed[1].always,
                                 !.sets = sets,
                                 !.preload_lookup = preload_lookup[1]]
               /\ wpc' = "preload_prompt"
               /\ wexc' = wexc
    /\ UNCHANGED <<cfg, prompts, logs, createVars, nmVars>>

\* the preload menu and the merge of the module URLs
PromptPreloadSet ==
    /\ wpc = "preload_prompt"
    /\ \/ /\ Shown("preload", "interrupted")
          /\ Log("info", "Preload selection cancelled")
          /\ wpc' = AfterInterrupt("preload")
          /\ w' = w
       \/ \E selected_set_label \in Labels(w.preload_lookup) :
            LET preload_value == Lookup(w.preload_lookup, selected_set_label)
                selected_urls == IF preload_value.kind = "set"
                                 THEN preload_value.val.urls ELSE <<>>
            IN /\ Shown("preload", "answered")
               /\ logs' = logs
               /\ w' = [w EXCEPT !.selected_set_label = selected_set_label,
                                 !.selected_urls = selected_urls,
                                 !.module_urls = MergeUrls(w.always_urls, selected_urls)]
               /\ wpc' = "ask_create"
    /\ UNCHANGED <<cfg, wexc, createVars, nmVars>>

\* a plausible slip: the answer to the yes/no menu is not looked at
AfterAskCreateAlways(create_choice) == "authenticate"

\* if create_choice != "Yes": return None
AfterAskCreate(create_choice) ==
    IF create_choice # "Yes" THEN "construct" ELSE "authenticate"

\* _prompt_repo_creation: the yes/no menu
AskCreate ==
    /\ wpc = "ask_create"
    /\ \/ /\ Shown("create_repo", "interrupted")
          /\ Log2("info", "Repository creation choice cancelled",
                  "info", "Repository creation cancelled")
          /\ wpc' = AfterInterrupt("create_repo")
          /\ w' = w
       \/ \E create_choice \in {"Yes", "No"} :
            /\ Shown("create_repo", "answered")
            /\ logs' = logs
            /\ w' = [w EXCEPT !.create_choice = create_choice]
            /\ wpc' = AfterAskCreate(create_choice)
    /\ UNCHANGED <<cfg, wexc, createVars, nmVars>>

\* a plausible slip: a login already offered is offered again
RECURSIVE AddOrgsNoCheck(_, _)
AddOrgsNoCheck(owner_lookup, orgs) ==
    IF orgs = <<>> THEN owner_lookup
    ELSE LET login == Head(orgs)
         IN AddOrgsNoCheck(IF login # <<>>
                           THEN Append(owner_lookup, <<<<login, "org">>, login>>)
                           ELSE owner_lookup,
                           Tail(orgs))

\* the loop over orgs that fills owner_lookup
RECURSIVE AddOrgs(_, _)
AddOrgs(owner_lookup, orgs) ==
    IF orgs = <<>> THEN owner_lookup
    ELSE LET login == Head(orgs)
             values == {owner_lookup[i][2] : i \in 1..Len(owner_lookup)}
         IN AddOrgs(IF login # <<>> /\ login \notin values
                    THEN Append(owner_lookup, <<<<login, "org">>, login>>)
                    ELSE owner_lookup,
                    Tail(orgs))

\* owner_lookup from the authenticated login and the organizations
OwnerLookup(user_login, orgs) ==
    AddOrgs(IF user_login # <<>> THEN << <<<<user_login, "personal">>, user_login>> >>
            ELSE <<>>,
            orgs)

\* a plausible slip: the authentication failure ends the wizard
AfterAuthFailureReturn == "returned"

\* except ADHDError around GithubApi() and the login: return None
AfterAuthFailure == "construct"

\* GithubApi() and get_authenticated_user_login(); the login may be empty
Authenticate ==
    /\ wpc = "authenticate"
    /\ \/ /\ Log("error", "Failed to initialize GitHub CLI")
          /\ w' = w
          /\ wpc' = AfterAuthFailure
       \/ \E user_login \in UserLogins :
            /\ logs' = logs
            /\ w' = [w EXCEPT !.user_login = user_login]
            /\ wpc' = "list_owners"
    /\ UNCHANGED <<cfg, prompts, wexc, createVars, nmVars>>

\* get_user_orgs() and the construction of owner_lookup; an org is
\* modelled by its login, <<>> when it has none
ListOwners ==
    /\ wpc = "list_owners"
    /\ \E orgs_ok \in BOOLEAN, fetched \in OrgLists :
         LET orgs == IF orgs_ok THEN fetched ELSE <<>>
             owner_lookup == OwnerLookup(w.user_login, orgs)
             l1 == IF orgs_ok THEN <<>> ELSE << <<"error", "Failed to fetch organizations">> >>
         IN /\ ~orgs_ok => fetched = <<>>
            /\ w' = [w EXCEPT !.orgs = orgs, !.owner_lookup = owner_lookup]
            /\ IF owner_lookup = <<>>
               THEN /\ logs' = logs \o l1 \o << <<"error", "No eligible GitHub owners found">> >>
                    /\ wpc' = "construct"
               ELSE /\ logs' = logs \o l1 \o << <<"info", "Available repository owners">> >>
                    /\ wpc' = "owner_prompt"
    /\ UNCHANGED <<cfg, prompts, wexc, createVars, nmVars>>

\* the owner menu
ChooseOwner ==
    /\ wpc = "owner_prompt"
    /\ \/ /\ Shown("owner", "interrupted")
          /\ Log2("info", "Repository owner selection cancelled",
                  "info", "Repository creation cancelled")
          /\ wpc' = AfterInterrupt("owner")
          /\ w' = w
       \/ \E owner_label \in Labels(w.owner_lookup) :
            /\ Shown("owner", "answered")
            /\ logs' = logs
            /\ w' = [w EXCEPT !.owner = Lookup(w.owner_lookup, owner_label)]
            /\ wpc' = "visibility_prompt"
    /\ UNCHANGED <<cfg, wexc, createVars, nmVars>>

\* the visibility menu and the RepoCreationOptions returned
ChooseVisibility ==
    /\ wpc = "visibility_prompt"
    /\ \/ /\ Shown("visibility", "interrupted")
          /\ Log2("info", "Repository visibility selection cancelled",
                  "info", "Repository creation cancelled")
          /\ wpc' = AfterInterrupt("visibility")
          /\ w' = w
       \/ \E visibility_choice \in {"Public", "Private"} :
            LET visibility == IF visibility_choice = "Private" THEN "private" ELSE "public"
            IN /\ Shown("visibility", "answered")
               /\ logs' = logs
               /\ w' = [w EXCEPT !.repo_options =
                          Some([owner |-> w.owner, visibility |-> visibility])]
               /\ wpc' = "construct"
    /\ UNCHANGED <<cfg, wexc, createVars, nmVars>>

\* a plausible slip: the name is handed on as it was typed
CallCreateRawName ==
    /\ wpc = "construct"
    /\ params' = [repo_path |-> w.dest_path, module_urls |-> w.module_urls,
                  project_name |-> w.raw_project_name, repo_options |-> w.repo_options]
    /\ template_url' = w.template_url
    /\ pc' = "prepare"
    /\ cwd0' = cwd
    /\ wpc' = "create"
    /\ UNCHANGED <<cloned_git, target, dest, dest_path, calls, fs_dirs, fs_files, remote,
                   result, error, cwd, name_with_owner, cfg, w, prompts, logs,
                   wexc, nmVars>>

\* ProjectParams(...), ProjectCreator(params) and the call of create()
CallCreate ==
    /\ wpc = "construct"
    /\ params' = [repo_path |-> w.dest_path, module_urls |-> w.module_urls,
                  project_name |-> w.project_name, repo_options |-> w.repo_options]
    /\ template_url' = w.template_url
    /\ pc' = "prepare"
    /\ cwd0' = cwd
    /\ wpc' = "create"
    /\ UNCHANGED <<cloned_git, target, dest, dest_path, calls, fs_dirs, fs_files, remote,
                   result, error, cwd, name_with_owner, cfg, w, prompts, logs,
                   wexc, nmVars>>

\* create() has ended: except ADHDError, or the success message
AfterCreate ==
    /\ wpc = "create"
    /\ pc \in {"done", "failed"}
    /\ IF pc = "done"
       THEN Log("info", "Project created") /\ wpc' = "returned" /\ wexc' = wexc
       ELSE IF error = "ADHDError"
       THEN Log("error", "Failed to create project") /\ wpc' = "returned" /\ wexc' = wexc
       ELSE logs' = logs /\ wpc' = "raised" /\ wexc' = error
    /\ UNCHANGED <<cfg, w, prompts, createVars, nmVars>>

----------------------------------------------------------------------------
(* create() called on a ProjectCreator built from any ProjectParams *)

\* the hosting side: the create_repo and push_initial_commit requests it
\* has received, in order, and the repositories and pushes it accepted
NoRemote == [create_asked |-> <<>>, push_asked |-> <<>>, repos |-> {}, pushed |-> {}]

NoParams ==
    [repo_path |-> <<>>, module_urls |-> <<>>, project_name |-> <<>>,
     repo_options |-> None]

WizardOff ==
    /\ wpc = "off"
    /\ cfg = [templates |-> None, preload |-> None]
    /\ w = W0
    /\ prompts = <<>>
    /\ logs = <<>>
    /\ wexc = ""

NormalizeOff ==
    /\ nm_in = <<>>
    /\ nm_out = <<>>

ReaderOff ==
    /\ rd_doc = NoneVal
    /\ rd_out = <<>>

CreateNotCalled ==
    /\ cloned_git = FALSE
    /\ params = NoParams
    /\ template_url = ""
    /\ pc = "idle"
    /\ target = <<>>
    /\ dest = None
    /\ dest_path = <<>>
    /\ calls = <<>>
    /\ fs_dirs = InitDirs
    /\ fs_files = {}
    /\ remote = NoRemote
    /\ result = None
    /\ error = ""
    /\ cwd0 = cwd
    /\ name_with_owner = <<>>

Init ==
    /\ params \in ParamsSet
    /\ template_url \in TemplateUrls
    /\ pc = "prepare"
    /\ target = <<>>
    /\ dest = None
    /\ dest_path = <<>>
    /\ calls = <<>>
    /\ fs_dirs = InitDirs
    /\ cloned_git = FALSE
    /\ fs_files = {}
    /\ remote = NoRemote
    /\ result = None
    /\ error = ""
    /\ cwd \in Cwds
    /\ cwd0 = cwd
    /\ name_with_owner = <<>>
    /\ NormalizeOff
    /\ ReaderOff
    /\ WizardOff

Next ==
    \/ PrepareTargetPath
    \/ NewGithubApi
    \/ CloneTemplate
    \/ RemoveGitDir
    \/ WriteInitYaml
    \/ MaybeCreateRemoteRepo
    \/ PushInitialCommit

Spec == Init /\ [][Next]_vars

----------------------------------------------------------------------------
(* the wizard run from its first line to the end of create() *)

InitWizard ==
    /\ cwd = <<Root, <<"w">>>>
    /\ CreateNotCalled
    /\ NormalizeOff
    /\ ReaderOff
    /\ wpc = "start"
    /\ cfg \in [templates : TemplateCatalogs, preload : WizardPreloadDocs]
    /\ w = W0
    /\ prompts = <<>>
    /\ logs = <<>>
    /\ wexc = ""

NextWizard ==
    \/ ReadConfig
    \/ PromptProjectName
    \/ PromptParentDir
    \/ ListTemplates
    \/ PromptTemplate
    \/ ParsePreload
    \/ PromptPreloadSet
    \/ AskCreate
    \/ Authenticate
    \/ ListOwners
    \/ ChooseOwner
    \/ ChooseVisibility
    \/ CallCreate
    \/ PrepareTargetPath
    \/ NewGithubApi
    \/ CloneTemplate
    \/ RemoveGitDir
    \/ WriteInitYaml
    \/ MaybeCreateRemoteRepo
    \/ PushInitialCommit
    \/ AfterCreate

SpecWizard == InitWizard /\ [][NextWizard]_vars

----------------------------------------------------------------------------
(* the wizard up to the construction of the request, over every pair of *)
(* always list and preload set within the bound                         *)

InitMerge ==
    /\ cwd = <<Root, <<"w">>>>
    /\ CreateNotCalled
    /\ NormalizeOff
    /\ ReaderOff
    /\ wpc = "start"
    /\ cfg \in [templates : {Some(<<TemplateBasic, TemplateWeb>>)},
                preload : PreloadDocs(UrlLists)]
    /\ w = W0
    /\ prompts = <<>>
    /\ logs = <<>>
    /\ wexc = ""

NextMerge ==
    \/ ReadConfig
    \/ PromptProjectName
    \/ PromptParentDir
    \/ ListTemplates
    \/ PromptTemplate
    \/ ParsePreload
    \/ PromptPreloadSet
    \/ AskCreate
    \/ Authenticate
    \/ ListOwners
    \/ ChooseOwner
    \/ ChooseVisibility
    \/ CallCreate

SpecMerge == InitMerge /\ [][NextMerge]_vars

----------------------------------------------------------------------------
(* the wizard from its first line to the answer of the preload menu, the *)
(* part of the run that builds and shows the two catalog menus           *)

InitMenus ==
    /\ cwd = <<Root, <<"w">>>>
    /\ CreateNotCalled
    /\ NormalizeOff
    /\ ReaderOff
    /\ wpc = "start"
    /\ cfg \in [templates : TemplateCatalogs, preload : PreloadDocs(FewUrlLists)]
    /\ w = W0
    /\ prompts = <<>>
    /\ logs = <<>>
    /\ wexc = ""

NextMenus ==
    \/ ReadConfig
    \/ PromptProjectName
    \/ PromptParentDir
    \/ ListTemplates
    \/ PromptTemplate
    \/ ParsePreload
    \/ PromptPreloadSet

SpecMenus == InitMenus /\ [][NextMenus]_vars

----------------------------------------------------------------------------
(* _prompt_repo_creation on its own, from its first line to its return *)
(* ("construct") or to the KeyboardInterrupt it re-raises ("returned") *)

InitRepoPrompt ==
    /\ cwd = <<Root, <<"w">>>>
    /\ CreateNotCalled
    /\ NormalizeOff
    /\ ReaderOff
    /\ wpc = "ask_create"
    /\ cfg = [templates |-> None, preload |-> None]
    /\ w = W0
    /\ prompts = <<>>
    /\ logs = <<>>
    /\ wexc = ""

NextRepoPrompt ==
    \/ AskCreate
    \/ Authenticate
    \/ ListOwners
    \/ ChooseOwner
    \/ ChooseVisibility

SpecRepoPrompt == InitRepoPrompt /\ [][NextRepoPrompt]_vars

\* every step of the function returns: a menu is answered or interrupted,
\* a gateway call answers or raises
SpecRepoPromptFair == SpecRepoPrompt /\ WF_vars(NextRepoPrompt)

----------------------------------------------------------------------------
(* _to_snake_case applied to every name within the bound, and again to *)
(* its own result                                                      *)

Normalize ==
    /\ nm_out = <<>>
    /\ wpc = "off"
    /\ pc = "idle"
    /\ nm_out' = <<ToSnakeCase(nm_in)>>
    /\ UNCHANGED <<nm_in, rd_doc, rd_out, createVars, wizVars>>

NormalizeAgain ==
    /\ Len(nm_out) = 1
    /\ nm_out' = Append(nm_out, ToSnakeCase(nm_out[1]))
    /\ UNCHANGED <<nm_in, rd_doc, rd_out, createVars, wizVars>>

InitNormalize ==
    /\ cwd = <<Root, <<"w">>>>
    /\ CreateNotCalled
    /\ WizardOff
    /\ nm_in \in SeqsUpTo(NameChars, MaxNameLen)
    /\ nm_out = <<>>
    /\ ReaderOff

NextNormalize ==
    \/ Normalize
    \/ NormalizeAgain

SpecNormalize == InitNormalize /\ [][NextNormalize]_vars

----------------------------------------------------------------------------
(* list_project_templates (templates.py) applied to every catalog within *)
(* the bound                                                             *)

\* the entries of data.items() from the first that is no mapping on are
\* never reached
RECURSIVE TemplatesOf(_)
TemplatesOf(entries) ==
    IF entries = <<>> THEN <<>>
    ELSE LET name == Head(entries)[1]
             value == Head(entries)[2]
             desc == StrOf(DictGet(value.val, "description", YStr("")))
             url == StrOf(DictGet(value.val, "url", YStr("")))
         IN (IF url # ""
             THEN <<[name |-> name, description |-> desc, url |-> url]>>
             ELSE <<>>) \o TemplatesOf(Tail(entries))

\* list_project_templates: None stands for the ValueError
ListProjectTemplates(doc) ==
    IF doc.kind # "map" THEN None
    ELSE IF \E i \in 1..Len(doc.val) : doc.val[i][2].kind # "map" THEN None
    ELSE Some(TemplatesOf(doc.val))

TemplateNames == {"basic", "web", "extra"}

DescriptionEntries == {<<>>, << <<"description", YStr("d")>> >>}

UrlEntries ==
    {<<>>, << <<"url", YStr("")>> >>, << <<"url", NoneVal>> >>,
     << <<"url", YStr("t1")>> >>}

TemplateValues ==
    {YMap(d \o u) : d \in DescriptionEntries, u \in UrlEntries} \cup {YStr("t1")}

\* mappings of up to MaxTemplates distinct names, and one document that is
\* no mapping
TemplateDocs ==
    {YList(<<>>)} \cup
    {YMap([i \in 1..Len(ns) |-> <<ns[i], vs[i]>>]) :
        <<ns, vs>> \in UNION {{<<n, v>> : n \in {m \in [1..k -> TemplateNames] :
                                                     \A i, j \in 1..k : m[i] = m[j] => i = j},
                                          v \in [1..k -> TemplateValues]} :
                              k \in 0..MaxTemplates}}

ReadTemplates ==
    /\ rd_out = <<>>
    /\ rd_doc \in TemplateDocs
    /\ rd_out' = <<ListProjectTemplates(rd_doc)>>
    /\ UNCHANGED <<rd_doc, nm_in, nm_out, createVars, wizVars>>

InitTemplates ==
    /\ cwd = <<Root, <<"w">>>>
    /\ CreateNotCalled
    /\ WizardOff
    /\ NormalizeOff
    /\ rd_doc \in TemplateDocs
    /\ rd_out = <<>>

NextTemplates ==
    \/ ReadTemplates

SpecTemplates == InitTemplates /\ [][NextTemplates]_vars

----------------------------------------------------------------------------
(* parse_preload_sets (preload_sets.py) applied to every preload document *)
(* within the bound                                                       *)

\* documents with a key that is present and null, or a set that is null
NullPreloadDocs ==
    {<< <<"always", NoneVal>> >>,
     << <<"options", NoneVal>> >>,
     << <<"always", YList(<<YStr("u1")>>)>>, <<"options", NoneVal>> >>,
     << <<"options", YMap(<< <<YStr("web"), NoneVal>> >>)>> >>,
     << <<"options", YMap(<< <<YStr("web"), YMap(<< <<"urls", NoneVal>> >>)>> >>)>> >>}

ReaderPreloadDocs ==
    {YMap(doc[1]) : doc \in PreloadDocs(UrlLists) \ {None}}
    \cup {YMap(doc) : doc \in NullPreloadDocs}

ReadPreloadSets ==
    /\ rd_out = <<>>
    /\ rd_doc \in ReaderPreloadDocs
    /\ rd_out' = <<ParsePreloadSets(rd_doc.val)>>
    /\ UNCHANGED <<rd_doc, nm_in, nm_out, createVars, wizVars>>

InitPreload ==
    /\ cwd = <<Root, <<"w">>>>
    /\ CreateNotCalled
    /\ WizardOff
    /\ NormalizeOff
    /\ rd_doc \in ReaderPreloadDocs
    /\ rd_out = <<>>

NextPreload ==
    \/ ReadPreloadSets

SpecPreload == InitPreload /\ [][NextPreload]_vars

----------------------------------------------------------------------------
(* Properties of create() *)

Called(op) == op \in Range(calls)

InitPath == Append(dest_path, InitYamlName)

ManifestInPlace ==
    /\ dest_path \in fs_dirs
    /\ [path |-> InitPath, content |-> InitData(params)] \in fs_files

\* C1: the side effects performed by create() always form a prefix of
\* mkdir parent, clone, strip history, write init.yaml and, only with
\* repo_options, create repository, push; a failed create() returns no
\* path, and after the failure no further step runs.
C1_StepsFormPrefix ==
    /\ [](/\ IsPrefix(calls, SideEffects(params))
          /\ (pc = "failed" => result = None /\ error # "")
          /\ (result # None => pc = "done" /\ calls = SideEffects(params)))
    /\ [][pc = "failed" => pc' = "failed" /\ calls' = calls /\ result' = None]_vars

C1_Witness ==
    /\ pc = "failed"
    /\ params.repo_options # None
    /\ calls = <<"mkdir_parent", "clone_repo", "remove_git_dir">>

\* C2: when clone_repo reports no destination, create() has failed, no
\* init.yaml is written, and neither create_repo nor push_initial_commit
\* is called, with or without repo_options.
C2_NoDestinationStopsCreate ==
    dest = Some(<<>>) =>
        /\ pc = "failed"
        /\ result = None
        /\ ~Called("write_init_yaml")
        /\ fs_files = {}
        /\ ~Called("create_repo")
        /\ ~Called("push_initial_commit")

C2_Witness ==
    /\ dest = Some(<<>>)
    /\ params.repo_options # None
    /\ pc = "failed"

\* C3: without repo_options, create() never calls create_repo or
\* push_initial_commit and the remote side stays untouched, whatever the
\* other steps do.
C3_NoOptionsNoRemoteCalls ==
    params.repo_options = None =>
        /\ ~Called("create_repo")
        /\ ~Called("push_initial_commit")
        /\ remote = NoRemote

C3_Witness ==
    /\ params.repo_options = None
    /\ pc = "done"
    /\ Called("write_init_yaml")

\* C4: an init.yaml written by create() holds name = project_name,
\* description = "" and modules = module_urls, element for element in the
\* same order, for every module_urls including the empty list.
C4_ManifestVerbatim ==
    \A f \in fs_files :
        /\ f.path = InitPath
        /\ Len(f.content) = 3
        /\ f.content[1] = <<"name", params.project_name>>
        /\ f.content[2] = <<"description", <<>>>>
        /\ f.content[3][1] = "modules"
        /\ Len(f.content[3][2]) = Len(params.module_urls)
        /\ \A i \in 1..Len(params.module_urls) :
               f.content[3][2][i] = params.module_urls[i]

C4_Witness ==
    /\ params.module_urls = <<"u2", "u2">>
    /\ \E f \in fs_files : f.content[3][2] = <<"u2", "u2">>

\* C6: when create_repo is rejected, create() fails, push_initial_commit is
\* never called and the clone and its init.yaml stay in place; when the
\* push fails, create() fails and the clone, the init.yaml and the remote
\* repository stay in place.
C6_NoRollback ==
    /\ (Called("create_repo") /\ remote.repos = {}) =>
           /\ pc = "failed"
           /\ result = None
           /\ ~Called("push_initial_commit")
           /\ ManifestInPlace
    /\ (Called("push_initial_commit") /\ remote.pushed = {}) =>
           /\ pc = "failed"
           /\ result = None
           /\ ManifestInPlace
           /\ \E r \in remote.repos : r.name = name_with_owner

C6_Witness ==
    /\ Called("create_repo")
    /\ remote.repos = {}
    /\ pc = "failed"
    /\ error = "RuntimeError"

\* C7: between the write of init.yaml and the remote provisioning, create()
\* calls the module-hydration initializer.
C7_HydrationBeforeRemote ==
    pc \in {"remote", "push", "done"} => Called("initialize_modules")

\* C8: at every exit of create(), and while the remote provisioning runs,
\* the working directory is the one create() was called in.
C8_WorkingDirectoryKept ==
    pc \in {"remote", "push", "done", "failed"} => cwd = cwd0

C8_Witness ==
    /\ pc = "done"
    /\ params.repo_options # None
    /\ Called("push_initial_commit")
    /\ cwd = cwd0

----------------------------------------------------------------------------
(* Properties of the wizard *)

Interrupted == \E i \in 1..Len(prompts) : prompts[i][2] = "interrupted"

\* C5: once the user has interrupted a prompt, the wizard has returned
\* without an exception, create() was never called, and nothing was
\* created locally or remotely.
C5_InterruptEndsWizardCleanly ==
    Interrupted =>
        /\ wpc = "returned"
        /\ wexc = ""
        /\ pc = "idle"
        /\ calls = <<>>
        /\ fs_dirs = InitDirs
        /\ fs_files = {}
        /\ remote = NoRemote

C5_Witness ==
    /\ prompts # <<>>
    /\ prompts[Len(prompts)] = <<"visibility", "interrupted">>
    /\ wpc = "returned"

NoDuplicates(m) == \A i, j \in 1..Len(m) : m[i] = m[j] => i = j

FirstIndex(xs, x) == CHOOSE i \in 1..Len(xs) : xs[i] = x /\ \A k \in 1..(i - 1) : xs[k] # x

IsMergeOf(m, a, sel) ==
    /\ NoDuplicates(m)
    /\ Range(m) = Range(a \o sel)
    /\ \A i, j \in 1..Len(m) : i < j => FirstIndex(a \o sel, m[i]) < FirstIndex(a \o sel, m[j])

\* C9: the module_urls handed to the orchestrator are always_urls followed
\* by the urls of the chosen set (none for the None choice) with every
\* later repeat removed: no duplicates, exactly the URLs of both lists,
\* in first-occurrence order.
C9_MergeDeduplicatesInOrder ==
    /\ wpc \in {"ask_create", "authenticate", "list_owners", "owner_prompt",
                "visibility_prompt", "construct"} =>
           /\ IsMergeOf(w.module_urls, w.always_urls, w.selected_urls)
           /\ w.selected_set_label = <<"None">> => w.selected_urls = <<>>
           /\ w.always_urls = <<"u1", "u2">> /\ w.selected_urls = <<"u2", "u1">>
                  => w.module_urls = <<"u1", "u2">>
    /\ pc # "idle" =>
           /\ params.module_urls = w.module_urls
           /\ IsMergeOf(params.module_urls, w.always_urls, w.selected_urls)

C9_Witness ==
    /\ pc # "idle"
    /\ w.always_urls = <<"u1", "u2">>
    /\ w.selected_urls = <<"u2", "u1">>
    /\ params.module_urls = <<"u1", "u2">>

----------------------------------------------------------------------------
(* Properties of _to_snake_case *)

WellFormedName(r) ==
    /\ r # <<>>
    /\ \A i \in 1..Len(r) : r[i] \in LowerCase \cup Digits \cup {"_"}
    /\ r[1] # "_"
    /\ r[Len(r)] # "_"
    /\ \A i \in 1..(Len(r) - 1) : ~(r[i] = "_" /\ r[i + 1] = "_")

\* C10: the normalised name is never empty, holds only lowercase letters,
\* digits and single underscores with none at either end, is "project"
\* when the input holds no letter or digit, and normalising it again
\* returns it unchanged.
C10_NormalizeIdempotent ==
    nm_out # <<>> =>
        /\ WellFormedName(nm_out[1])
        /\ (\A i \in 1..Len(nm_in) : ~IsAlnum(nm_in[i])) => nm_out[1] = ProjectLiteral
        /\ Len(nm_out) = 2 => nm_out[2] = nm_out[1]

C10_Witness ==
    /\ Len(nm_out) = 2
    /\ nm_in = <<"_", "B", "!">>
    /\ nm_out[1] = <<"b">>

----------------------------------------------------------------------------
(* Properties of the catalog readers *)

EntryOf(doc, name) == DictGet(doc.val, name, NoneVal)

AllEntriesMappings(doc) ==
    doc.kind = "map" /\ \A i \in 1..Len(doc.val) : doc.val[i][2].kind = "map"

\* the entry gives no url, or an empty one (url: "" or a bare url:)
UrlMissingOrEmpty(value) ==
    DictGet(value.val, "url", NoneVal) \in {NoneVal, YStr("")}

NamesOf(ts) == [i \in 1..Len(ts) |-> ts[i].name]

\* the subsequence of the catalog's names whose entries give a url
RECURSIVE NamesWithUrl(_)
NamesWithUrl(entries) ==
    IF entries = <<>> THEN <<>>
    ELSE (IF UrlMissingOrEmpty(Head(entries)[2]) THEN <<>> ELSE <<Head(entries)[1]>>)
         \o NamesWithUrl(Tail(entries))

\* C11: for a catalog whose entries are all mappings, the parsed list holds
\* exactly the entries that give a url, in catalog order: an entry whose
\* url is missing or empty never appears, with or without a description.
C11_OnlyEntriesWithUrl ==
    (rd_out # <<>> /\ AllEntriesMappings(rd_doc)) =>
        /\ rd_out[1] # None
        /\ NamesOf(rd_out[1][1]) = NamesWithUrl(rd_doc.val)
        /\ \A i \in 1..Len(rd_out[1][1]) : rd_out[1][1][i].url # ""

HasKey(es, key) == \E i \in 1..Len(es) : es[i][1] = key

UrlsMissingOrNoList(value) ==
    value.kind # "map" \/ DictGet(value.val, "urls", NoneVal).kind # "list"

\* C12: parse_preload_sets raises exactly when `options` is present and no
\* mapping; otherwise the always list is empty when `always` is absent,
\* the set list is empty when `options` is absent, there is one PreloadSet
\* per `options` entry in document order, and a set whose urls is missing
\* or no list has no urls.
C12_PreloadSetsParsed ==
    (rd_out # <<>> /\ rd_doc \in ReaderPreloadDocs) =>
        LET doc == rd_doc.val
            options == DictGet(doc, "options", NoneVal)
        IN /\ rd_out[1] = None <=> (HasKey(doc, "options") /\ options.kind # "map")
           /\ rd_out[1] # None =>
                LET out == rd_out[1][1] IN
                /\ ~HasKey(doc, "always") => out.always = <<>>
                /\ ~HasKey(doc, "options") => out.sets = <<>>
                /\ HasKey(doc, "options") =>
                     /\ Len(out.sets) = Len(options.val)
                     /\ \A i \in 1..Len(options.val) :
                          /\ out.sets[i].name = options.val[i][1]
                          /\ UrlsMissingOrNoList(options.val[i][2]) => out.sets[i].urls = <<>>

C12_Witness ==
    /\ rd_out # <<>>
    /\ rd_doc \in ReaderPreloadDocs
    /\ ~HasKey(rd_doc.val, "always")
    /\ rd_out[1] # None
    /\ Len(rd_out[1][1].sets) = 2
    /\ rd_out[1][1].sets[2].name = YStr("b")
    /\ rd_out[1][1].sets[2].urls = <<>>

----------------------------------------------------------------------------
(* Properties of the menus *)

PromptShown(name) == \E i \in 1..Len(prompts) : prompts[i][1] = name

SameLabelTwice(labels) ==
    \E i, j \in 1..Len(labels) : i < j /\ labels[i] = labels[j]

\* the items of the template menu, when the wizard builds one
TemplateMenuItems ==
    IF cfg.templates # None /\ Len(cfg.templates[1]) >= 2 THEN cfg.templates[1] ELSE <<>>

\* the items of the preload menu, when the document parses
PreloadMenuItems ==
    IF cfg.preload # None /\ ParsePreloadSets(cfg.preload[1]) # None
    THEN LET sets == ParsePreloadSets(cfg.preload[1])[1].sets
         IN <<NoneItem>> \o [i \in 1..Len(sets) |-> SetItem(sets[i])]
    ELSE <<>>

\* the menu offers one label per item, in item order, no label twice, and
\* each label leads back to its item
FaithfulMenu(lookup, items, labels) ==
    /\ Len(lookup) = Len(items)
    /\ ~SameLabelTwice(labels)
    /\ \A i \in 1..Len(items) :
         /\ lookup[i] = <<labels[i], items[i]>>
         /\ Lookup(lookup, labels[i]) = items[i]

BeforeTemplateMenu == {"start", "name", "path", "templates"}

BeforePreloadMenu == BeforeTemplateMenu \cup {"template_prompt", "preload"}

\* C13: when two items of the template menu or of the preload menu (None
\* entry included) render the same label, the wizard ends with a ValueError
\* where the menu is built and that menu's prompt is never shown; a menu
\* that is built has pairwise distinct labels, one per item in item order,
\* each leading back to its item.
C13_MenusRefuseRepeatedLabels ==
    LET tl == [i \in 1..Len(TemplateMenuItems) |-> TemplateLabel(TemplateMenuItems[i])]
        pl == [i \in 1..Len(PreloadMenuItems) |-> PreloadLabel(PreloadMenuItems[i])]
    IN /\ SameLabelTwice(tl) =>
            /\ ~PromptShown("template")
            /\ w.template_lookup = <<>>
            /\ wpc \in BeforeTemplateMenu \cup {"returned", "raised"}
            /\ wpc = "raised" => wexc = "ValueError"
       /\ SameLabelTwice(pl) =>
            /\ ~PromptShown("preload")
            /\ w.preload_lookup = <<>>
            /\ wpc \in BeforePreloadMenu \cup {"returned", "raised"}
            /\ wpc = "raised" => wexc = "ValueError"
       /\ (PromptShown("template") \/ wpc = "template_prompt") =>
            FaithfulMenu(w.template_lookup, TemplateMenuItems, tl)
       /\ (PromptShown("preload") \/ wpc = "preload_prompt") =>
            FaithfulMenu(w.preload_lookup, PreloadMenuItems, pl)

C13_Witness ==
    /\ wpc = "raised"
    /\ wexc = "ValueError"
    /\ PromptShown("template")
    /\ w.template_lookup # <<>>
    /\ Len(PreloadMenuItems) = 3
    /\ PreloadLabel(PreloadMenuItems[2]) = PreloadLabel(PreloadMenuItems[3])

----------------------------------------------------------------------------
(* Properties of _prompt_repo_creation *)

Logged(level, msg) == <<level, msg>> \in Range(logs)

\* the position of a state in the order AskCreate, Authenticate,
\* ListOwners, ChooseOwner, ChooseVisibility; 6 once the function has ended
Rank(state) ==
    CASE state = "ask_create" -> 1
      [] state = "authenticate" -> 2
      [] state = "list_owners" -> 3
      [] state = "owner_prompt" -> 4
      [] state = "visibility_prompt" -> 5
      [] OTHER -> 6

Ended == wpc \in {"construct", "returned"}

Skipped == wpc = "construct" /\ w.repo_options = None

Configured == wpc = "construct" /\ w.repo_options # None

Cancelled == wpc = "returned"

AnsweredNo == <<"create_repo", "answered">> \in Range(prompts) /\ w.create_choice = "No"

AuthenticationFailed == Logged("error", "Failed to initialize GitHub CLI")

OrgLookupFailed == Logged("error", "Failed to fetch organizations")

\* neither the authenticated login nor any listed organization has a login
ZeroOwners ==
    /\ w.create_choice = "Yes"
    /\ ~AuthenticationFailed
    /\ ({w.user_login} \cup Range(w.orgs)) \ {<<>>} = {}

\* a state is entered only from the state before it in the order, and the
\* function ends from any of them
OrderedStep ==
    /\ Rank(wpc) < 6
    /\ Rank(wpc') > Rank(wpc)
    /\ Rank(wpc') < 6 => Rank(wpc') = Rank(wpc) + 1

OutcomeMatchesHistory ==
    /\ Rank(wpc) < 6 => w.repo_options = None
    /\ wpc = "construct" => (Skipped <=> (AnsweredNo \/ AuthenticationFailed \/ ZeroOwners))
    /\ Configured =>
         /\ prompts = << <<"create_repo", "answered">>, <<"owner", "answered">>,
                         <<"visibility", "answered">> >>
         /\ w.create_choice = "Yes"
         /\ ~AuthenticationFailed
         /\ w.owner # <<>>
         /\ w.repo_options[1].owner = w.owner
         /\ w.repo_options[1].visibility \in {"public", "private"}
    /\ Cancelled =>
         /\ prompts # <<>>
         /\ prompts[Len(prompts)][2] = "interrupted"
         /\ \A i \in 1..(Len(prompts) - 1) : prompts[i][2] = "answered"
         /\ w.repo_options = None
    /\ Interrupted => Cancelled
    /\ OrgLookupFailed =>
         /\ w.orgs = <<>>
         /\ w.user_login # <<>> => ~Skipped /\ (PromptShown("owner") \/ wpc = "owner_prompt")

\* C14: the states of _prompt_repo_creation are visited in the order
\* AskCreate, Authenticate, ListOwners, ChooseOwner, ChooseVisibility; the
\* function always ends, either Skipped (no options) exactly when No was
\* answered, authentication failed or no owner could be built, or
\* Configured after Yes, a successful authentication, an owner answer and
\* a visibility answer, or with the interrupt passed to the caller; a
\* failed organization lookup leaves an empty list and does not end it.
C14_SubFlowOrderAndOutcomes ==
    /\ [][OrderedStep]_vars
    /\ []OutcomeMatchesHistory
    /\ <>Ended

C14_Witness ==
    /\ Configured
    /\ OrgLookupFailed
    /\ w.orgs = <<>>
    /\ w.owner = <<"o">>

OwnerLogins == [i \in 1..Len(w.owner_lookup) |-> w.owner_lookup[i][2]]

\* C20: a Configured owner is the authenticated login or a login of the
\* listed organizations; the owner menu offers every non-empty login of
\* the two exactly once, the personal account first.
C20_OwnerFromDistinctMenu ==
    /\ Configured =>
         /\ w.repo_options[1].owner \in ({w.user_login} \cup Range(w.orgs)) \ {<<>>}
         /\ w.repo_options[1].owner \in Range(OwnerLogins)
    /\ (PromptShown("owner") \/ wpc = "owner_prompt") =>
         /\ NoDuplicates(OwnerLogins)
         /\ NoDuplicates([i \in 1..Len(w.owner_lookup) |-> w.owner_lookup[i][1]])
         /\ Range(OwnerLogins) = ({w.user_login} \cup Range(w.orgs)) \ {<<>>}
         /\ \A i \in 1..Len(w.owner_lookup) :
              /\ w.owner_lookup[i][1][1] = w.owner_lookup[i][2]
              /\ w.owner_lookup[i][1][2] = "personal" <=> (i = 1 /\ w.user_login # <<>>)
              /\ w.owner_lookup[i][1][2] = "org" =>
                   w.owner_lookup[i][2] \in Range(w.orgs)
         /\ w.user_login # <<>> => w.owner_lookup[1] = <<<<w.user_login, "personal">>, w.user_login>>

C20_Witness ==
    /\ Configured
    /\ w.user_login = <<"o">>
    /\ w.orgs = <<<<"o">>, <<"g">>>>
    /\ Len(w.owner_lookup) = 2
    /\ w.repo_options[1].owner = <<"g">>

----------------------------------------------------------------------------
(* Properties of the wizard's call of create() *)

CreateInvoked == pc # "idle"

\* C15: once the authentication of the remote-provisioning sub-flow has
\* failed, the wizard does not end before it has invoked create(); the
\* call carries the URL of the selected template and no repo_options, no
\* create_repo or push_initial_commit call is made, and a create() that
\* completes leaves the clone with its init.yaml.
C15_AuthFailureKeepsLocalCreation ==
    AuthenticationFailed =>
        /\ wpc \in {"construct", "create", "returned", "raised"}
        /\ ~Interrupted
        /\ w.repo_options = None
        /\ wpc # "construct" => CreateInvoked
        /\ CreateInvoked =>
             /\ params.repo_options = None
             /\ template_url = w.template_url
             /\ \E i \in 1..Len(w.templates) : w.templates[i].url = template_url
             /\ IsPrefix(calls, <<"mkdir_parent", "clone_repo", "remove_git_dir",
                                  "write_init_yaml">>)
             /\ remote = NoRemote
        /\ pc = "done" =>
             /\ Called("clone_repo")
             /\ Called("write_init_yaml")
             /\ ManifestInPlace
             /\ result = Some(dest_path)

C15_Witness ==
    /\ AuthenticationFailed
    /\ w.create_choice = "Yes"
    /\ wpc = "returned"
    /\ pc = "done"
    /\ ManifestInPlace
    /\ ~Called("create_repo")

WizardEnded == wpc \in {"returned", "raised"}

\* every prompt of the run was answered, the last one of the
\* remote-provisioning sub-flow included
Completed ==
    /\ WizardEnded
    /\ ~Interrupted
    /\ <<"create_repo", "answered">> \in Range(prompts)

\* the template the run settled on: the only one, or the one whose label
\* was chosen
SelectedTemplates ==
    IF Len(w.templates) = 1 THEN {w.templates[1]}
    ELSE {w.templates[i] : i \in {k \in 1..Len(w.templates) :
                                    TemplateLabel(w.templates[k]) = w.selected_template_label}}

\* the urls of the preload set whose label was chosen, none for "None"
ChosenSetUrls ==
    IF w.selected_set_label = <<"None">> THEN <<>>
    ELSE LET k == CHOOSE i \in 1..Len(w.sets) :
                    PreloadLabel(SetItem(w.sets[i])) = w.selected_set_label
         IN w.sets[k].urls

RequestMatchesAnswers ==
    /\ \E t \in SelectedTemplates : template_url = t.url
    /\ Cardinality({t.url : t \in SelectedTemplates}) = 1
    /\ params.project_name = ToSnakeCase(w.raw_project_name)
    /\ params.repo_path = Append(w.parent_dir, ToSnakeCase(w.raw_project_name))
    /\ IsMergeOf(params.module_urls, w.always_urls, ChosenSetUrls)
    /\ w.create_choice = "No" => params.repo_options = None
    /\ params.repo_options # None =>
         /\ w.create_choice = "Yes"
         /\ params.repo_options = w.repo_options

\* the run of the example: a name with a capital and a space, the default
\* parent directory, one template, always = [u1], set web = [u2], no
\* remote repository
ExampleRun ==
    /\ w.raw_project_name = <<"A", " ", "p">>
    /\ w.parent_dir = <<>>
    /\ cfg.templates = Some(<<TemplateBasic>>)
    /\ cfg.preload = Some(ExamplePreloadDoc)
    /\ w.selected_set_label = <<"web", "d">>
    /\ w.create_choice = "No"
    /\ pc = "done"

ExampleOutcome ==
    /\ template_url = "t1"
    /\ result = Some(<<Root, <<"w">>, <<"a", "_", "p">>>>)
    /\ fs_files = {[path |-> <<Root, <<"w">>, <<"a", "_", "p">>, InitYamlName>>,
                    content |-> << <<"name", <<"a", "_", "p">>>>,
                                   <<"description", <<>>>>,
                                   <<"modules", <<"u1", "u2">>>> >>]}
    /\ ~Called("create_repo")
    /\ ~Called("push_initial_commit")
    /\ remote = NoRemote

\* create() is entered from the wizard once, and its arguments are never
\* replaced afterwards
InvokedAtMostOnce ==
    /\ pc # "idle" => pc' # "idle" /\ params' = params /\ template_url' = template_url
    /\ (pc' = "prepare" /\ pc # "prepare") => (pc = "idle" /\ wpc = "construct")

\* C16: a wizard run in which every prompt was answered has invoked
\* create() exactly once; the call carries the URL of the selected (or
\* only) template, project_name = the normalised entered name, repo_path =
\* the parent directory joined with that name, module_urls = the merge of
\* always_urls with the chosen set's urls, and no repo_options when remote
\* creation was declined; the example run writes {name: a_p, description:
\* "", modules: [u1, u2]} under ./a_p and makes no remote call.
C16_CompletedRunInvokesCreateOnce ==
    /\ [](Completed => CreateInvoked /\ pc \in {"done", "failed"})
    /\ [](CreateInvoked => RequestMatchesAnswers)
    /\ [](ExampleRun => ExampleOutcome)
    /\ [][InvokedAtMostOnce]_vars

C16_Witness ==
    /\ Completed
    /\ ExampleRun
    /\ ExampleOutcome
    /\ wpc = "returned"

----------------------------------------------------------------------------
(* Properties of the template selection *)

TimesShown(name) == Cardinality({i \in 1..Len(prompts) : prompts[i][1] = name})

\* list_templates has run: the destination was answered and the wizard
\* has left the line that lists the templates
TemplatesListed == <<"path", "answered">> \in Range(prompts) /\ wpc # "templates"

Catalog == cfg.templates[1]

CatalogLabels == [i \in 1..Len(Catalog) |-> TemplateLabel(Catalog[i])]

\* exactly one catalog template has the chosen label, and its URL is the
\* one in use
UrlOfChosenLabel(url) ==
    \E i \in 1..Len(Catalog) :
        /\ CatalogLabels[i] = w.selected_template_label
        /\ \A j \in 1..Len(Catalog) : CatalogLabels[j] = w.selected_template_label => j = i
        /\ url = Catalog[i].url

OneTemplateNoPrompt ==
    (TemplatesListed /\ Len(Catalog) = 1) =>
        /\ ~PromptShown("template")
        /\ wpc # "template_prompt"
        /\ w.template_url = Catalog[1].url
        /\ CreateInvoked => template_url = Catalog[1].url

NoTemplateNoRun ==
    (TemplatesListed /\ Catalog = <<>>) =>
        /\ wpc = "returned"
        /\ wexc = ""
        /\ prompts = << <<"name", "answered">>, <<"path", "answered">> >>
        /\ ~CreateInvoked
        /\ calls = <<>>

OnePromptThenChosenUrl ==
    /\ wpc = "template_prompt" => ~PromptShown("template")
    /\ wpc # "template_prompt" =>
         /\ TimesShown("template") = 1
         /\ w.template_default = TemplateLabel(Catalog[1])
         /\ <<"template", "answered">> \in Range(prompts) =>
              /\ UrlOfChosenLabel(w.template_url)
              /\ CreateInvoked => UrlOfChosenLabel(template_url)

\* C17 as stated, for every catalog of two or more templates: exactly one
\* template prompt is shown, its default is the first template, and the
\* URL used is that of the template whose label was chosen
C17_AnyCatalogPromptsOnce ==
    /\ OneTemplateNoPrompt
    /\ NoTemplateNoRun
    /\ (TemplatesListed /\ Len(Catalog) >= 2) => OnePromptThenChosenUrl

\* C17: with exactly one template no template prompt is shown and its URL
\* is used; with two or more templates whose labels are pairwise distinct
\* exactly one template prompt is shown, its default is the first
\* template, and the URL used is that of the template whose label was
\* chosen; with an empty catalog the wizard returns after the destination
\* prompt, shows no later prompt and does not invoke create().
C17_TemplateSelection ==
    /\ OneTemplateNoPrompt
    /\ NoTemplateNoRun
    /\ (TemplatesListed /\ Len(Catalog) >= 2 /\ ~SameLabelTwice(CatalogLabels)) =>
           OnePromptThenChosenUrl

C17_Witness ==
    /\ cfg.templates = Some(<<TemplateBasic, TemplateWeb>>)
    /\ TimesShown("template") = 1
    /\ w.template_default = TemplateLabel(TemplateBasic)
    /\ w.selected_template_label = TemplateLabel(TemplateWeb)
    /\ CreateInvoked
    /\ template_url = "t2"

----------------------------------------------------------------------------
(* Properties of the remote repository step *)

\* s is n without its leading and trailing whitespace and with a hyphen
\* for every space that is left
IsShortNameOf(s, n) ==
    \E i, j \in 1..Len(n) :
        /\ i <= j
        /\ n[i] \notin Whitespace
        /\ n[j] \notin Whitespace
        /\ \A k \in 1..Len(n) : (k < i \/ k > j) => n[k] \in Whitespace
        /\ Len(s) = j - i + 1
        /\ \A k \in 1..Len(s) : s[k] = IF n[i + k - 1] = " " THEN "-" ELSE n[i + k - 1]

Blank(n) == \A k \in 1..Len(n) : n[k] \in Whitespace

\* create() holds repo_options and has gone through the remote step
RemoteStepTaken == params.repo_options # None /\ fs_files # {} /\ pc # "remote"

RequestedPrivate == params.repo_options[1].visibility \in {"private", "Private"}

RepoCreated == remote.repos # {}

\* C18: with repo_options, the repository short name is the destination
\* folder's name trimmed and with hyphens for its spaces; an empty name
\* makes create() fail with no create_repo call; otherwise create_repo is
\* called exactly once with owner/short name and private exactly when the
\* requested visibility is private, and once it succeeded
\* push_initial_commit is called once for the same name on branch main.
C18_RepoNameAndRemoteCalls ==
    /\ Len(remote.create_asked) <= 1
    /\ Len(remote.push_asked) <= 1
    /\ Len(remote.create_asked) = Cardinality({i \in 1..Len(calls) : calls[i] = "create_repo"})
    /\ Len(remote.push_asked) =
          Cardinality({i \in 1..Len(calls) : calls[i] = "push_initial_commit"})
    /\ ~RemoteStepTaken => remote = NoRemote
    /\ (RemoteStepTaken /\ Blank(Name(dest_path))) =>
          /\ pc = "failed"
          /\ result = None
          /\ ~Called("create_repo")
          /\ remote = NoRemote
    /\ (RemoteStepTaken /\ ~Blank(Name(dest_path))) =>
          /\ Len(remote.create_asked) = 1
          /\ LET asked == remote.create_asked[1].name
                 owner == params.repo_options[1].owner
                 short == SubSeq(asked, Len(owner) + 2, Len(asked))
             IN /\ asked = owner \o <<"/">> \o short
                /\ IsShortNameOf(short, Name(dest_path))
                /\ name_with_owner = asked
          /\ remote.create_asked[1].private = RequestedPrivate
          /\ \A r \in remote.repos : r = remote.create_asked[1]
          /\ (RepoCreated /\ pc \in {"done", "failed"}) =>
                remote.push_asked = <<[repo |-> remote.create_asked[1].name,
                                       branch |-> "main", message |-> "init commit"]>>
          /\ (~RepoCreated \/ pc = "push") => remote.push_asked = <<>>
          /\ ~RepoCreated => pc = "failed"

C18_Witness ==
    /\ pc = "done"
    /\ Name(dest_path) = <<"a", " ", "p">>
    /\ params.repo_options = Some([owner |-> <<"o">>, visibility |-> "Private"])
    /\ remote.create_asked = <<[name |-> <<"o", "/", "a", "-", "p">>, private |-> TRUE]>>
    /\ remote.push_asked = <<[repo |-> <<"o", "/", "a", "-", "p">>, branch |-> "main",
                              message |-> "init commit"]>>

----------------------------------------------------------------------------
(* Properties of _remove_git_dir *)

GitDir == Append(dest_path, GitName)

\* the .git directory is gone when a step from the writing of init.yaml
\* on is about to run, and after such a step until the gateway pushes
GitDirGoneFromWriteOn ==
    /\ pc \in {"write", "remote", "push"} => GitDir \notin fs_dirs
    /\ (Called("write_init_yaml") /\ ~Called("push_initial_commit")) => GitDir \notin fs_dirs
    /\ (pc \in {"write", "remote", "push", "done"} /\ dest_path \in fs_dirs) =>
          Called("remove_git_dir")

\* neither writing init.yaml nor create_repo brings the directory back
LaterStepsKeepItGone ==
    (pc \in {"write", "remote"} /\ GitDir \notin fs_dirs) => GitDir \notin fs_dirs'

\* _remove_git_dir fails only while removing a directory that exists
MissingGitDirIsNoError ==
    (pc = "strip" /\ GitDir \notin fs_dirs) => (pc' = "write" /\ error' = "" /\ fs_dirs' = fs_dirs)

\* C19: after a successful clone the .git directory is absent from the
\* destination when init.yaml is written and at every later step of
\* create(), the push included, whether or not the clone arrived with
\* one; a clone without one does not make create() fail.
C19_GitDirRemovedBeforeWrite ==
    /\ []GitDirGoneFromWriteOn
    /\ [][LaterStepsKeepItGone]_vars
    /\ [][MissingGitDirIsNoError]_vars

C19_Witness ==
    /\ cloned_git
    /\ pc = "push"
    /\ Called("write_init_yaml")
    /\ dest_path \in fs_dirs
    /\ GitDir \notin fs_dirs

====
